---- MODULE Spec2Model ----
(***************************************************************************)
(* Model of the icon painting engine of bpmn-visualization:                *)
(*   - computeScaledIconSize (ShapeUtil.ts lines 79-94), and               *)
(*   - the BpmnCanvas wrapper of mxAbstractCanvas2D (lines 112-295).       *)
(*                                                                         *)
(* JavaScript numbers are modelled as exact rationals <<num, den>> in      *)
(* lowest terms with den > 0, so two numbers are equal iff their pairs are *)
(* equal.  The inputs never divide by zero (icon sizes and the proportion  *)
(* divisor are non-zero), so Infinity and NaN do not arise.  The value     *)
(* `undefined` is the pair <<0, 0>>.                                       *)
(***************************************************************************)
EXTENDS Integers, Sequences, FiniteSets, TLC

VARIABLES
  pc,                   \* "new": before the constructor; "callback": inside
                        \* iconConfiguration.setIconOrigin(this); "ready": constructed
  c,                    \* the calls received by the wrapped mxAbstractCanvas2D, in order
  shapeConfiguration,   \* BpmnCanvas.shapeConfiguration
  iconConfiguration,    \* the constructor's iconConfiguration argument (originalSize, style, ratioFromShape)
  scaleX, scaleY,       \* BpmnCanvas.scaleX / scaleY
  iconPaintingOriginX,  \* BpmnCanvas.iconPaintingOriginX
  iconPaintingOriginY,  \* BpmnCanvas.iconPaintingOriginY
  last,                 \* history: the last BpmnCanvas method called, with its arguments
  placed,               \* history: the last origin placement/translation called, with its arguments
  nops,                 \* history: number of methods called since the constructor returned
  fn                    \* a stand-alone call of computeScaledIconSize: arguments, locals and result

vars == <<pc, c, shapeConfiguration, iconConfiguration, scaleX, scaleY,
          iconPaintingOriginX, iconPaintingOriginY, last, placed, nops, fn>>

canvasVars == <<pc, c, shapeConfiguration, iconConfiguration, scaleX, scaleY,
                iconPaintingOriginX, iconPaintingOriginY, last, placed, nops>>

----------------------------------------------------------------------------
(* Numbers *)

Undefined == <<0, 0>>

Abs(n) == IF n < 0 THEN -n ELSE n

RECURSIVE Gcd(_, _)
Gcd(a, b) == IF b = 0 THEN a ELSE Gcd(b, a % b)

\* the rational n/d (d # 0) in lowest terms with a positive denominator
Norm(n, d) ==
  LET g == Gcd(Abs(n), Abs(d))
      s == IF d < 0 THEN -1 ELSE 1
  IN  <<(s * n) \div g, (s * d) \div g>>

Num(n) == <<n, 1>>

Zero == Num(0)
One == Num(1)

Add(a, b) == Norm(a[1] * b[2] + b[1] * a[2], a[2] * b[2])
Sub(a, b) == Norm(a[1] * b[2] - b[1] * a[2], a[2] * b[2])
Mul(a, b) == Norm(a[1] * b[1], a[2] * b[2])
Div(a, b) == Norm(a[1] * b[2], a[2] * b[1])
Lt(a, b) == a[1] * b[2] < b[1] * a[2]
Le(a, b) == a[1] * b[2] <= b[1] * a[2]

\* JavaScript truthiness of a number: undefined and 0 are falsy
Truthy(a) == a # Undefined /\ a[1] # 0

----------------------------------------------------------------------------
(* computeScaledIconSize *)

\* lines 80-88: the icon size proportional to the shape, before ratio and inset
iconSizeProportionalToShapeNoTieBreak(initialIconSize, shape) ==
  IF Lt(initialIconSize.height, initialIconSize.width)
  THEN [width  |-> shape.w,
        height |-> Div(Mul(shape.w, initialIconSize.height), initialIconSize.width)]
  ELSE [width  |-> Div(Mul(shape.h, initialIconSize.width), initialIconSize.height),
        height |-> shape.h]

iconSizeProportionalToShape(initialIconSize, shape) ==
  IF \/ Lt(initialIconSize.height, initialIconSize.width)
     \/ (initialIconSize.height = initialIconSize.width /\ Le(shape.w, shape.h))
  THEN [width  |-> shape.w,
        height |-> Div(Mul(shape.w, initialIconSize.height), initialIconSize.width)]
  ELSE [width  |-> Div(Mul(shape.h, initialIconSize.width), initialIconSize.height),
        height |-> shape.h]

\* line 90
insetNoMinusOne(iconStyleConfiguration) ==
  IF Truthy(iconStyleConfiguration.strokeWidth)
  THEN Mul(iconStyleConfiguration.strokeWidth, Num(2))
  ELSE Zero

inset(iconStyleConfiguration) ==
  IF Truthy(iconStyleConfiguration.strokeWidth)
  THEN Mul(Sub(iconStyleConfiguration.strokeWidth, One), Num(2))
  ELSE Zero

\* lines 79-94
computeScaledIconSize(initialIconSize, iconStyleConfiguration, shape, ratioFromShape) ==
  LET p == iconSizeProportionalToShape(initialIconSize, shape)
      i == inset(iconStyleConfiguration)
  IN  [width  |-> Sub(Mul(p.width, ratioFromShape), i),
       height |-> Sub(Mul(p.height, ratioFromShape), i)]

----------------------------------------------------------------------------
(* Bounds and inputs *)

\* number of BpmnCanvas methods called on one canvas after its constructor returned
MaxOps == 2

\* largest icon width/height, shape width/height and stroke width given to a
\* stand-alone call of computeScaledIconSize
MaxDim == 3

Call(name, args) == [name |-> name, args |-> args]

Shape(x, y, w, h) == [x |-> Num(x), y |-> Num(y), w |-> Num(w), h |-> Num(h)]
Size(w, h) == [width |-> Num(w), height |-> Num(h)]
Style(isFilled, strokeWidth) ==
  [isFilled |-> isFilled, strokeColor |-> "Black", fillColor |-> "White",
   strokeWidth |-> strokeWidth]

\* shapes and icons painted in a session
Shapes == {Shape(10, 10, 40, 40), Shape(0, 5, 20, 40)}
IconSizes == {Size(100, 50), Size(50, 50)}
Ratios == {Undefined, Zero, <<1, 2>>}
StrokeWidths == {Num(1), Num(3)}
IconConfigurations ==
  {[originalSize |-> s, style |-> Style(f, sw), ratioFromShape |-> r] :
     s \in IconSizes, f \in BOOLEAN, sw \in StrokeWidths, r \in Ratios}

\* arguments of the methods, in icon units
Points == {<<Zero, Zero>>, <<Num(5), Num(3)>>}
Corners == {<<Num(8), Num(39)>>}
Extents == {<<Num(4), Num(2)>>}
Deltas == {<<Num(2), Num(-1)>>, <<Num(-3), Num(4)>>}
Proportions == {Num(4)}
Margins == {Num(7)}
Centers == {<<Num(5), Num(5)>>}
Thetas == {Num(90)}
Colors == {"Black"}

\* arguments of a stand-alone call of computeScaledIconSize
FnIconSizes == {Size(w, h) : w, h \in 1..MaxDim} \cup {Size(100, 50)}
FnShapes == {Shape(10, 10, w, h) : w, h \in 0..MaxDim} \cup {Shape(10, 10, 40, 40)}
FnStrokeWidths == {Num(n) : n \in 0..MaxDim} \cup {Undefined}
FnRatios == {One, <<1, 2>>, <<1, 4>>}

----------------------------------------------------------------------------
(* BpmnCanvas *)

\* lines 130-138: the scale factors the constructor derives
scaleFactorsAlwaysFitted(iconConf, shape) ==
  LET scaledIconSize == computeScaledIconSize(iconConf.originalSize, iconConf.style,
                          shape, IF iconConf.ratioFromShape = Undefined THEN One ELSE iconConf.ratioFromShape)
  IN  <<Div(scaledIconSize.width, iconConf.originalSize.width),
        Div(scaledIconSize.height, iconConf.originalSize.height)>>

scaleFactors(iconConf, shape) ==
  IF Truthy(iconConf.ratioFromShape)
  THEN LET scaledIconSize == computeScaledIconSize(iconConf.originalSize, iconConf.style,
                               shape, iconConf.ratioFromShape)
       IN  <<Div(scaledIconSize.width, iconConf.originalSize.width),
             Div(scaledIconSize.height, iconConf.originalSize.height)>>
  ELSE <<One, One>>

\* lines 216-224: the calls updateCanvasStyle makes on canvas
updateCanvasStyleFillOnly(canvas, style) ==
  canvas \o <<Call("setFillColor", <<style.fillColor>>),
              Call("setStrokeWidth", <<style.strokeWidth>>)>>

updateCanvasStyle(canvas, style) ==
  canvas \o <<Call("setFillColor",
                   <<IF style.isFilled THEN style.strokeColor ELSE style.fillColor>>),
              Call("setStrokeWidth", <<style.strokeWidth>>)>>

\* lines 124-142, up to the call of iconConfiguration.setIconOrigin(this)
constructor(shape, iconConf) ==
  /\ pc = "new"
  /\ shapeConfiguration' = shape
  /\ iconConfiguration' = iconConf
  /\ scaleX' = scaleFactors(iconConf, shape)[1]
  /\ scaleY' = scaleFactors(iconConf, shape)[2]
  /\ c' = updateCanvasStyle(c, iconConf.style)
  /\ pc' = "callback"
  /\ last' = Call("constructor", <<>>)
  /\ UNCHANGED <<iconPaintingOriginX, iconPaintingOriginY, placed, nops, fn>>

iconOriginalSize == iconConfiguration.originalSize

\* an origin method runs as the setIconOrigin callback of the constructor, or later
CanCall == pc = "ready" /\ nops < MaxOps
CanPlace == pc = "callback" \/ CanCall

\* the part of a step common to the methods that move the origin
Placed(name, args) ==
  /\ CanPlace
  /\ pc' = "ready"
  /\ nops' = IF pc = "callback" THEN 0 ELSE nops + 1
  /\ last' = Call(name, args)
  /\ placed' = [name |-> name, args |-> args,
                from |-> <<iconPaintingOriginX, iconPaintingOriginY>>]
  /\ UNCHANGED <<c, shapeConfiguration, iconConfiguration, scaleX, scaleY, fn>>

\* lines 150-154
setIconOriginToShapeTopLeftProportionally(shapeDimensionProportion) ==
  /\ Placed("setIconOriginToShapeTopLeftProportionally", <<shapeDimensionProportion>>)
  /\ iconPaintingOriginX' = Add(shapeConfiguration.x, Div(shapeConfiguration.w, shapeDimensionProportion))
  /\ iconPaintingOriginY' = Add(shapeConfiguration.y, Div(shapeConfiguration.h, shapeDimensionProportion))

\* lines 159-163
setIconOriginToShapeTopLeft(topMargin, leftMargin) ==
  /\ Placed("setIconOriginToShapeTopLeft", <<topMargin, leftMargin>>)
  /\ iconPaintingOriginX' = Add(shapeConfiguration.x, leftMargin)
  /\ iconPaintingOriginY' = Add(shapeConfiguration.y, topMargin)

\* lines 168-172
setIconOriginForIconCenteredRelative ==
  /\ Placed("setIconOriginForIconCentered", <<>>)
  /\ iconPaintingOriginX' = Add(iconPaintingOriginX,
       Div(Sub(shapeConfiguration.w, Mul(iconOriginalSize.width, scaleX)), Num(2)))
  /\ iconPaintingOriginY' = Add(iconPaintingOriginY,
       Div(Sub(shapeConfiguration.h, Mul(iconOriginalSize.height, scaleY)), Num(2)))

setIconOriginForIconCentered ==
  /\ Placed("setIconOriginForIconCentered", <<>>)
  /\ iconPaintingOriginX' = Add(shapeConfiguration.x,
       Div(Sub(shapeConfiguration.w, Mul(iconOriginalSize.width, scaleX)), Num(2)))
  /\ iconPaintingOriginY' = Add(shapeConfiguration.y,
       Div(Sub(shapeConfiguration.h, Mul(iconOriginalSize.height, scaleY)), Num(2)))

\* lines 177-181
setIconOriginForIconBottomCentered(bottomMargin) ==
  /\ Placed("setIconOriginForIconBottomCentered", <<bottomMargin>>)
  /\ iconPaintingOriginX' = Add(shapeConfiguration.x,
       Div(Sub(shapeConfiguration.w, Mul(iconOriginalSize.width, scaleX)), Num(2)))
  /\ iconPaintingOriginY' = Add(shapeConfiguration.y,
       Sub(Sub(shapeConfiguration.h, Mul(iconOriginalSize.height, scaleY)), bottomMargin))

\* lines 186-193
setIconOriginForIconOnBottomLeft(bottomMargin, fromCenterMargin) ==
  /\ Placed("setIconOriginForIconOnBottomLeft", <<bottomMargin, fromCenterMargin>>)
  /\ iconPaintingOriginX' = Sub(Add(shapeConfiguration.x,
       Div(Sub(shapeConfiguration.w, Mul(iconOriginalSize.width, scaleX)), Num(3))), fromCenterMargin)
  /\ iconPaintingOriginY' = Add(shapeConfiguration.y,
       Sub(Sub(shapeConfiguration.h, Mul(iconOriginalSize.height, scaleY)), bottomMargin))

\* lines 203-206
translateIconOriginUnscaled(dx, dy) ==
  /\ pc = "ready"
  /\ Placed("translateIconOrigin", <<dx, dy>>)
  /\ iconPaintingOriginX' = Add(iconPaintingOriginX, dx)
  /\ iconPaintingOriginY' = Add(iconPaintingOriginY, dy)

translateIconOrigin(dx, dy) ==
  /\ pc = "ready"
  /\ Placed("translateIconOrigin", <<dx, dy>>)
  /\ iconPaintingOriginX' = Add(iconPaintingOriginX, Mul(scaleX, dx))
  /\ iconPaintingOriginY' = Add(iconPaintingOriginY, Mul(scaleY, dy))

\* lines 208-210
computeScaleFromOriginXNoOrigin(x) == Mul(x, scaleX)

computeScaleFromOriginX(x) == Add(iconPaintingOriginX, Mul(x, scaleX))

\* lines 212-214
computeScaleFromOriginY(y) == Add(iconPaintingOriginY, Mul(y, scaleY))

\* the part of a step common to the methods that forward one call to the canvas
Forwarded(name, args, call) ==
  /\ CanCall
  /\ c' = Append(c, call)
  /\ nops' = nops + 1
  /\ last' = Call(name, args)
  /\ UNCHANGED <<pc, shapeConfiguration, iconConfiguration, scaleX, scaleY, placed, fn>>

Forward(name, args, call) ==
  /\ Forwarded(name, args, call)
  /\ UNCHANGED <<iconPaintingOriginX, iconPaintingOriginY>>

\* lines 226-228
arcTo(rx, ry, angle, largeArcFlag, sweepFlag, x, y) ==
  Forward("arcTo", <<rx, ry, angle, largeArcFlag, sweepFlag, x, y>>,
          Call("arcTo", <<Mul(rx, scaleX), Mul(ry, scaleY), angle, largeArcFlag, sweepFlag,
                          computeScaleFromOriginX(x), computeScaleFromOriginY(y)>>))

\* lines 230-232
begin == Forward("begin", <<>>, Call("begin", <<>>))

\* lines 234-236
close == Forward("close", <<>>, Call("close", <<>>))

\* lines 238-247
curveTo(x1, y1, x2, y2, x3, y3) ==
  Forward("curveTo", <<x1, y1, x2, y2, x3, y3>>,
          Call("curveTo", <<computeScaleFromOriginX(x1), computeScaleFromOriginY(y1),
                            computeScaleFromOriginX(x2), computeScaleFromOriginY(y2),
                            computeScaleFromOriginX(x3), computeScaleFromOriginY(y3)>>))

\* lines 249-251
fill == Forward("fill", <<>>, Call("fill", <<>>))

\* lines 253-255
fillAndStroke == Forward("fillAndStroke", <<>>, Call("fillAndStroke", <<>>))

\* lines 257-259
stroke == Forward("stroke", <<>>, Call("stroke", <<>>))

\* lines 261-263
setStrokeColor(color) ==
  Forward("setStrokeColor", <<color>>, Call("setStrokeColor", <<color>>))

\* lines 265-267
setRoundLineJoin == Forward("setRoundLineJoin", <<>>, Call("setLineJoin", <<"round">>))

\* lines 269-271
lineTo(x, y) ==
  Forward("lineTo", <<x, y>>,
          Call("lineTo", <<computeScaleFromOriginX(x), computeScaleFromOriginY(y)>>))

\* lines 273-275
moveTo(x, y) ==
  Forward("moveTo", <<x, y>>,
          Call("moveTo", <<computeScaleFromOriginX(x), computeScaleFromOriginY(y)>>))

\* lines 277-279
rect(x, y, w, h) ==
  Forward("rect", <<x, y, w, h>>,
          Call("rect", <<computeScaleFromOriginX(x), computeScaleFromOriginY(y),
                         Mul(w, scaleX), Mul(h, scaleY)>>))

\* lines 281-283
roundrect(x, y, w, h, dx, dy) ==
  Forward("roundrect", <<x, y, w, h, dx, dy>>,
          Call("roundrect", <<computeScaleFromOriginX(x), computeScaleFromOriginY(y),
                              Mul(w, scaleX), Mul(h, scaleY), dx, dy>>))

\* lines 285-287
ellipse(x, y, w, h) ==
  Forward("ellipse", <<x, y, w, h>>,
          Call("ellipse", <<computeScaleFromOriginX(x), computeScaleFromOriginY(y),
                            Mul(w, scaleX), Mul(h, scaleY)>>))

\* lines 292-294
rotateScaledCenter(theta, flipH, flipV, cx, cy) ==
  Forward("rotate", <<theta, flipH, flipV, cx, cy>>,
          Call("rotate", <<theta, flipH, flipV,
                           computeScaleFromOriginX(cx), computeScaleFromOriginY(cy)>>))

rotateMovingOrigin(theta, flipH, flipV, cx, cy) ==
  /\ Forwarded("rotate", <<theta, flipH, flipV, cx, cy>>,
               Call("rotate", <<theta, flipH, flipV,
                                Add(iconPaintingOriginX, cx), Add(iconPaintingOriginY, cy)>>))
  /\ iconPaintingOriginX' = Add(iconPaintingOriginX, cx)
  /\ iconPaintingOriginY' = Add(iconPaintingOriginY, cy)

rotate(theta, flipH, flipV, cx, cy) ==
  Forward("rotate", <<theta, flipH, flipV, cx, cy>>,
          Call("rotate", <<theta, flipH, flipV,
                           Add(iconPaintingOriginX, cx), Add(iconPaintingOriginY, cy)>>))

----------------------------------------------------------------------------
(* A painting session: one canvas, constructed, then used *)

NoCall == Call("none", <<>>)
NoPlacement == [name |-> "none", args |-> <<>>, from |-> <<Zero, Zero>>]
NoFn == [called |-> FALSE]

Init ==
  /\ pc = "new"
  /\ c = <<>>
  /\ shapeConfiguration = Shape(0, 0, 0, 0)
  /\ iconConfiguration = [originalSize |-> Size(1, 1), style |-> Style(FALSE, Undefined),
                          ratioFromShape |-> Undefined]
  /\ scaleX = Undefined
  /\ scaleY = Undefined
  /\ iconPaintingOriginX = Zero
  /\ iconPaintingOriginY = Zero
  /\ last = NoCall
  /\ placed = NoPlacement
  /\ nops = 0
  /\ fn = NoFn

Next ==
  \/ \E shape \in Shapes, iconConf \in IconConfigurations : constructor(shape, iconConf)
  \/ \E p \in Proportions : setIconOriginToShapeTopLeftProportionally(p)
  \/ \E t \in Margins, l \in Margins : setIconOriginToShapeTopLeft(t, l)
  \/ setIconOriginForIconCentered
  \/ \E b \in Margins : setIconOriginForIconBottomCentered(b)
  \/ \E b \in Margins, m \in Margins : setIconOriginForIconOnBottomLeft(b, m)
  \/ \E d \in Deltas : translateIconOrigin(d[1], d[2])
  \/ \E r \in Extents, p \in Corners : arcTo(r[1], r[2], Zero, One, Zero, p[1], p[2])
  \/ begin
  \/ close
  \/ \E p \in Corners : curveTo(p[1], p[2], Num(12), Num(25), Num(7), Num(1))
  \/ fill
  \/ fillAndStroke
  \/ stroke
  \/ \E color \in Colors : setStrokeColor(color)
  \/ setRoundLineJoin
  \/ \E p \in Points : lineTo(p[1], p[2])
  \/ \E p \in Points : moveTo(p[1], p[2])
  \/ \E p \in Corners, e \in Extents : rect(p[1], p[2], e[1], e[2])
  \/ \E p \in Corners, e \in Extents : roundrect(p[1], p[2], e[1], e[2], Num(3), Num(6))
  \/ \E p \in Corners, e \in Extents : ellipse(p[1], p[2], e[1], e[2])
  \/ \E t \in Thetas, p \in Centers : rotate(t, FALSE, TRUE, p[1], p[2])

Spec == Init /\ [][Next]_vars

----------------------------------------------------------------------------
(* A stand-alone call of computeScaledIconSize *)

\* lines 79-94, keeping the locals of the call
callComputeScaledIconSize(initialIconSize, iconStyleConfiguration, shape, ratioFromShape) ==
  /\ ~fn.called
  /\ fn' = [called |-> TRUE,
            initialIconSize |-> initialIconSize,
            strokeWidth |-> iconStyleConfiguration.strokeWidth,
            shape |-> shape,
            ratioFromShape |-> ratioFromShape,
            proportional |-> iconSizeProportionalToShape(initialIconSize, shape),
            inset |-> inset(iconStyleConfiguration),
            size |-> computeScaledIconSize(initialIconSize, iconStyleConfiguration,
                                           shape, ratioFromShape)]
  /\ UNCHANGED canvasVars

NextFn ==
  \E s \in FnIconSizes, sw \in FnStrokeWidths, shape \in FnShapes, r \in FnRatios :
     callComputeScaledIconSize(s, Style(FALSE, sw), shape, r)

SpecFn == Init /\ [][NextFn]_vars

----------------------------------------------------------------------------
(* Properties of computeScaledIconSize, checked under SpecFn *)

\* C1: the size computeScaledIconSize returns keeps the icon's aspect ratio:
\* width / natural width = height / natural height, for every stroke width.
C1_AspectRatioPreserved ==
  fn.called =>
    Div(fn.size.width, fn.initialIconSize.width)
      = Div(fn.size.height, fn.initialIconSize.height)

\* the icon is fitted to the width of the shape
FitsWidth(proportional, icon, shape) ==
  /\ proportional.width = shape.w
  /\ Mul(proportional.height, icon.width) = Mul(shape.w, icon.height)

\* the icon is fitted to the height of the shape
FitsHeight(proportional, icon, shape) ==
  /\ proportional.height = shape.h
  /\ Mul(proportional.width, icon.height) = Mul(shape.h, icon.width)

\* C2: the icon is fitted to the shape's width exactly when it is wider than
\* tall, or square in a shape with w <= h; otherwise to the shape's height.
\* A square icon takes the shape's width when w <= h and its height when w > h.
C2_LimitingAxis ==
  fn.called =>
    LET icon == fn.initialIconSize
        shape == fn.shape
        square == icon.height = icon.width
    IN  /\ IF \/ Lt(icon.height, icon.width)
              \/ (square /\ Le(shape.w, shape.h))
           THEN FitsWidth(fn.proportional, icon, shape)
           ELSE FitsHeight(fn.proportional, icon, shape)
        /\ square /\ Le(shape.w, shape.h)
             => fn.proportional = [width |-> shape.w, height |-> shape.w]
        /\ square /\ Lt(shape.h, shape.w)
             => fn.proportional = [width |-> shape.h, height |-> shape.h]

\* a square icon in a shape wider than tall was fitted to the shape's height
C2_Witness ==
  /\ fn.called
  /\ fn.initialIconSize.height = fn.initialIconSize.width
  /\ Lt(fn.shape.h, fn.shape.w)
  /\ Lt(Zero, fn.shape.h)
  /\ fn.proportional.width = fn.shape.h

\* C3: the result is (proportional size x ratioFromShape) - inset on each axis,
\* with inset = (strokeWidth - 1) * 2 for a non-zero strokeWidth and 0 otherwise;
\* strokeWidth 1 gives inset 0, strokeWidth 3 gives inset 4, and the icon
\* {100,50} in the shape {w:40,h:40} with ratio 1, strokeWidth 1 gives {40,20}.
C3_RatioThenInset ==
  fn.called =>
    LET sw == fn.strokeWidth
        expectedInset == IF sw = Undefined \/ sw = Zero THEN Zero ELSE Num(2 * (sw[1] - 1))
    IN  /\ fn.inset = expectedInset
        /\ fn.size.width = Sub(Mul(fn.proportional.width, fn.ratioFromShape), expectedInset)
        /\ fn.size.height = Sub(Mul(fn.proportional.height, fn.ratioFromShape), expectedInset)
        /\ sw = Num(1) => fn.inset = Zero
        /\ sw = Num(3) => fn.inset = Num(4)
        /\ (/\ fn.initialIconSize = Size(100, 50)
            /\ fn.shape.w = Num(40) /\ fn.shape.h = Num(40)
            /\ fn.ratioFromShape = One /\ sw = Num(1))
             => fn.size = Size(40, 20)

\* the example of the specification was computed
C3_Witness ==
  /\ fn.called
  /\ fn.initialIconSize = Size(100, 50)
  /\ fn.shape.w = Num(40) /\ fn.shape.h = Num(40)
  /\ fn.ratioFromShape = One
  /\ fn.strokeWidth = Num(1)
  /\ fn.size = Size(40, 20)

----------------------------------------------------------------------------
(* Properties of BpmnCanvas, checked under Spec *)

CoordinatePrimitives == {"moveTo", "lineTo", "curveTo", "arcTo", "rect", "roundrect", "ellipse"}
OriginMethods ==
  {"setIconOriginToShapeTopLeftProportionally", "setIconOriginToShapeTopLeft",
   "setIconOriginForIconCentered", "setIconOriginForIconBottomCentered",
   "setIconOriginForIconOnBottomLeft", "translateIconOrigin"}

\* the arguments the canvas must receive for the method call `m`, made with
\* the origin (ox, oy) and the scale (sx, sy)
Mapped(m, ox, oy, sx, sy) ==
  LET a == m.args
      X(x) == Add(ox, Mul(x, sx))
      Y(y) == Add(oy, Mul(y, sy))
  IN  CASE m.name \in {"moveTo", "lineTo"} -> <<X(a[1]), Y(a[2])>>
        [] m.name = "curveTo" -> <<X(a[1]), Y(a[2]), X(a[3]), Y(a[4]), X(a[5]), Y(a[6])>>
        [] m.name = "arcTo" -> <<Mul(a[1], sx), Mul(a[2], sy), a[3], a[4], a[5], X(a[6]), Y(a[7])>>
        [] m.name \in {"rect", "ellipse"} -> <<X(a[1]), Y(a[2]), Mul(a[3], sx), Mul(a[4], sy)>>
        [] m.name = "roundrect" -> <<X(a[1]), Y(a[2]), Mul(a[3], sx), Mul(a[4], sy), a[5], a[6]>>

\* the step made one more call on the canvas
EmittedOne == Len(c') = Len(c) + 1 /\ SubSeq(c', 1, Len(c)) = c

\* C4: each moveTo, lineTo, curveTo, arcTo, rect, roundrect and ellipse emits
\* exactly one call of the same name; x becomes origin.x + x*scaleX, y becomes
\* origin.y + y*scaleY, widths/heights/radii are multiplied by the scale
\* only, roundrect dx,dy and arcTo angle and flags are unchanged.
C4_PrimitivesMapped ==
  [][last'.name \in CoordinatePrimitives =>
       /\ EmittedOne
       /\ c'[Len(c')].name = last'.name
       /\ c'[Len(c')].args = Mapped(last', iconPaintingOriginX, iconPaintingOriginY, scaleX, scaleY)]_vars

\* a coordinate primitive was forwarded with unequal scale factors and a moved origin
C4_Witness ==
  /\ last.name = "roundrect"
  /\ scaleX # scaleY /\ scaleX # One /\ scaleY # One
  /\ placed.name = "translateIconOrigin"
  /\ c[Len(c)].name = "roundrect"

\* C5: rotate emits one rotate whose center is (origin.x + cx, origin.y + cy),
\* never multiplied by the scale; theta, flipH and flipV are unchanged.
C5_RotateCenterUnscaled ==
  [][last'.name = "rotate" =>
       /\ EmittedOne
       /\ c'[Len(c')].name = "rotate"
       /\ c'[Len(c')].args = <<last'.args[1], last'.args[2], last'.args[3],
                               Add(iconPaintingOriginX, last'.args[4]),
                               Add(iconPaintingOriginY, last'.args[5])>>]_vars

\* rotate about (5, 5) was forwarded by a canvas whose scale is not 1
C5_Witness ==
  /\ last.name = "rotate"
  /\ last.args[4] = Num(5) /\ last.args[5] = Num(5)
  /\ scaleX # One /\ scaleY # One /\ scaleX # scaleY
  /\ iconPaintingOriginX # Zero
  /\ c[Len(c)].name = "rotate"

\* C6: translateIconOrigin(dx, dy) moves the origin by (scaleX*dx, scaleY*dy):
\* a primitive at (x, y) is emitted after it where it was before it plus
\* (scaleX*dx, scaleY*dy), that is where (x+dx, y+dy) was before it.
C6_TranslateScaled ==
  [][last'.name = "translateIconOrigin" =>
       LET dx == last'.args[1]
           dy == last'.args[2]
           before(p) == Mapped(Call("moveTo", p), iconPaintingOriginX, iconPaintingOriginY,
                               scaleX, scaleY)
           after(p) == Mapped(Call("moveTo", p), iconPaintingOriginX', iconPaintingOriginY',
                              scaleX', scaleY')
       IN  /\ iconPaintingOriginX' = Add(iconPaintingOriginX, Mul(scaleX, dx))
           /\ iconPaintingOriginY' = Add(iconPaintingOriginY, Mul(scaleY, dy))
           /\ \A p \in Points \cup Corners :
                /\ after(p) = <<Add(before(p)[1], Mul(scaleX, dx)),
                                Add(before(p)[2], Mul(scaleY, dy))>>
                /\ after(p) = before(<<Add(p[1], dx), Add(p[2], dy)>>)]_vars

\* a second translation in a row was made by a canvas whose scale is not 1
C6_Witness ==
  /\ last.name = "translateIconOrigin"
  /\ placed.name = "translateIconOrigin"
  /\ nops = 2
  /\ scaleX # One /\ scaleY # One /\ scaleX # scaleY
  /\ placed.from # <<iconPaintingOriginX, iconPaintingOriginY>>

CenteredX == Add(shapeConfiguration.x,
               Div(Sub(shapeConfiguration.w, Mul(iconOriginalSize.width, scaleX)), Num(2)))
CenteredY == Add(shapeConfiguration.y,
               Div(Sub(shapeConfiguration.h, Mul(iconOriginalSize.height, scaleY)), Num(2)))

\* C7: once setIconOriginForIconCentered was the last origin method called,
\* a primitive at (0, 0) is emitted at (shape.x + (shape.w - naturalWidth*scaleX)/2,
\* shape.y + (shape.h - naturalHeight*scaleY)/2), whatever the origin was before.
C7_CenteredOverwrites ==
  placed.name = "setIconOriginForIconCentered" =>
    /\ iconPaintingOriginX = CenteredX
    /\ iconPaintingOriginY = CenteredY
    /\ computeScaleFromOriginX(Zero) = CenteredX
    /\ computeScaleFromOriginY(Zero) = CenteredY
    /\ (last.name \in {"moveTo", "lineTo"} /\ last.args = <<Zero, Zero>>)
         => c[Len(c)].args = <<CenteredX, CenteredY>>

\* moveTo(0, 0) was forwarded after a centering that replaced another origin
C7_Witness ==
  /\ placed.name = "setIconOriginForIconCentered"
  /\ placed.from # <<Zero, Zero>>
  /\ placed.from # <<iconPaintingOriginX, iconPaintingOriginY>>
  /\ last.name = "moveTo" /\ last.args = <<Zero, Zero>>
  /\ c[Len(c)].name = "moveTo"
  /\ scaleX # One

\* C8: after construction scaleX, scaleY, the shape box and the icon's natural
\* size never change; the origin changes only in the origin placements and
\* translateIconOrigin.
C8_ScaleFixed ==
  [][pc # "new" =>
       /\ scaleX' = scaleX
       /\ scaleY' = scaleY
       /\ shapeConfiguration' = shapeConfiguration
       /\ iconOriginalSize' = iconOriginalSize
       /\ last'.name \notin OriginMethods
            => /\ iconPaintingOriginX' = iconPaintingOriginX
               /\ iconPaintingOriginY' = iconPaintingOriginY]_vars

\* a translation then a rotate were made on a scaled canvas
C8_Witness ==
  /\ pc = "ready"
  /\ nops = 2
  /\ placed.name = "translateIconOrigin"
  /\ last.name = "rotate"
  /\ scaleX # One

\* C9: the canvas receives setFillColor (strokeColor when isFilled, else
\* fillColor) then setStrokeWidth(strokeWidth) first, once, before the
\* setIconOrigin callback runs and before any forwarded call; never again.
C9_StyleOnceFirst ==
  /\ pc = "new" => c = <<>>
  /\ pc = "callback" => Len(c) = 2 /\ placed = NoPlacement
  /\ pc # "new" =>
       LET style == iconConfiguration.style IN
       /\ Len(c) >= 2
       /\ c[1].name = "setFillColor"
       /\ c[1].args = <<IF style.isFilled THEN style.strokeColor ELSE style.fillColor>>
       /\ c[2].name = "setStrokeWidth"
       /\ c[2].args = <<style.strokeWidth>>
       /\ \A i \in 3..Len(c) : c[i].name \notin {"setFillColor", "setStrokeWidth"}

\* a filled icon was styled, then two more calls were forwarded
C9_Witness ==
  /\ pc = "ready"
  /\ iconConfiguration.style.isFilled
  /\ Len(c) = 4
  /\ c[1].args = <<"Black">>
  /\ c[3].name = "setStrokeColor"
  /\ c[4].name = "moveTo"

\* C10: without a ratioFromShape (or with 0) scaleX = scaleY = 1; with one,
\* scaleX = fitted.width / naturalWidth and scaleY = fitted.height /
\* naturalHeight; the scale is set when the setIconOrigin callback runs,
\* so the first origin is computed with it.
C10_ScaleAtConstruction ==
  pc # "new" =>
    LET ratio == iconConfiguration.ratioFromShape
        fitted == computeScaledIconSize(iconOriginalSize, iconConfiguration.style,
                                        shapeConfiguration, ratio)
    IN  /\ (ratio = Undefined \/ ratio = Zero) => scaleX = One /\ scaleY = One
        /\ (ratio # Undefined /\ ratio # Zero) =>
             /\ scaleX = Div(fitted.width, iconOriginalSize.width)
             /\ scaleY = Div(fitted.height, iconOriginalSize.height)
        /\ pc = "callback" => placed = NoPlacement
        /\ (pc = "ready" /\ nops = 0 /\ placed.name = "setIconOriginForIconCentered")
             => /\ iconPaintingOriginX = CenteredX
                /\ iconPaintingOriginY = CenteredY

\* the callback centered an icon fitted to half of the shape
C10_Witness ==
  /\ pc = "ready"
  /\ nops = 0
  /\ iconConfiguration.ratioFromShape = <<1, 2>>
  /\ placed.name = "setIconOriginForIconCentered"
  /\ scaleX # One
  /\ iconPaintingOriginX # Zero

====
